---- MODULE Spec2Model ----
(***************************************************************************)
(* SwingTrade: pullback-in-uptrend scanner (src/src/scanner.py,            *)
(* src/src/setup_rules.py), exit rules (src/src/exit_rules.py), the        *)
(* position alert loop (src/alert.py) and the relative-strength ranking of *)
(* today's signals (src/src/ranking.py, src/main.py).                      *)
(*                                                                         *)
(* Numbers.  Every float is an exact fraction <<num, den>> with den >= 0;  *)
(* den = 0 stands for +/-inf (a float division by zero) and NaN == <<>> is *)
(* pandas' missing value.  A comparison with NaN on either side is False,  *)
(* as in numpy.  The provider's prices and volumes are whole numbers       *)
(* (den = 1), so every rolling mean is an exact fraction.                  *)
(***************************************************************************)
EXTENDS Integers, Sequences, FiniteSets, TLC

\* ------------------------------------------------------------------------
\* Program constants
\* ------------------------------------------------------------------------
SMA20_WINDOW == 20
SMA50_WINDOW == 50
VOL_SMA20_WINDOW == 20
SMA200_WINDOW == 200
MIN_BARS == 60

LOOKBACK_DAYS == 60

\* ------------------------------------------------------------------------
\* Float arithmetic as exact fractions
\* ------------------------------------------------------------------------
NaN == <<>>

R(n) == <<n, 1>>

notna(x) == x # NaN

AbsInt(n) == IF n < 0 THEN -n ELSE n

SignInt(n) == IF n < 0 THEN -1 ELSE IF n > 0 THEN 1 ELSE 0

FSub(a, b) ==
  IF a = NaN \/ b = NaN THEN NaN
  ELSE <<a[1] * b[2] - b[1] * a[2], a[2] * b[2]>>

FAbs(a) == IF a = NaN THEN NaN ELSE <<AbsInt(a[1]), a[2]>>

FDiv(a, b) ==
  IF a = NaN \/ b = NaN THEN NaN
  ELSE IF b[1] = 0 THEN (IF a[1] = 0 THEN NaN ELSE <<SignInt(a[1]), 0>>)
  ELSE <<SignInt(b[1]) * a[1] * b[2], a[2] * AbsInt(b[1])>>

\* mutant: > taken as >=
FGt_or_equal(a, b) == a # NaN /\ b # NaN /\ a[1] * b[2] >= b[1] * a[2]

FAdd(a, b) ==
  IF a = NaN \/ b = NaN THEN NaN
  ELSE <<a[1] * b[2] + b[1] * a[2], a[2] * b[2]>>

FMul(a, b) ==
  IF a = NaN \/ b = NaN THEN NaN
  ELSE <<a[1] * b[1], a[2] * b[2]>>

FGt(a, b) == a # NaN /\ b # NaN /\ a[1] * b[2] > b[1] * a[2]

\* mutant: a comparison with a missing value counts as true
FLt_or_missing(a, b) == a = NaN \/ b = NaN \/ a[1] * b[2] < b[1] * a[2]

FLt(a, b) == a # NaN /\ b # NaN /\ a[1] * b[2] < b[1] * a[2]

\* mutant: <= taken as ==
FLe_exact(a, b) == a # NaN /\ b # NaN /\ a[1] * b[2] = b[1] * a[2]

FLe(a, b) == a # NaN /\ b # NaN /\ a[1] * b[2] <= b[1] * a[2]

FGe(a, b) == a # NaN /\ b # NaN /\ a[1] * b[2] >= b[1] * a[2]

\* ------------------------------------------------------------------------
\* pandas Series helpers (a Series is a sequence of fractions or NaN)
\* ------------------------------------------------------------------------
\* the running totals s[lo] + before, ..., s[lo] + ... + s[hi] + before
RECURSIVE cumsum(_, _, _, _)
cumsum(s, lo, hi, before) ==
  IF lo > hi THEN <<>>
  ELSE IF lo = hi THEN <<before + s[lo][1]>>
  ELSE LET mid == (lo + hi) \div 2
           left == cumsum(s, lo, mid, before)
       IN left \o cumsum(s, mid + 1, hi, left[Len(left)])

\* the values of s with 0 in place of each missing one
fillna_zero(s) == [i \in 1..Len(s) |-> IF s[i] = NaN THEN <<0, 1>> ELSE s[i]]

\* 1 for each missing value of s, 0 for the others
isna(s) == [i \in 1..Len(s) |-> IF s[i] = NaN THEN <<1, 1>> ELSE <<0, 1>>]

\* mutant: a window that is not full yet is averaged over the bars it has
rolling_mean_partial(s, w) ==
  LET total == cumsum(fillna_zero(s), 1, Len(s), 0)
      missing == cumsum(isna(s), 1, Len(s), 0)
  IN [i \in 1..Len(s) |->
        IF missing[i] - (IF i > w THEN missing[i - w] ELSE 0) > 0 THEN NaN
        ELSE IF i < w THEN <<total[i], i>>
        ELSE <<total[i] - (IF i > w THEN total[i - w] ELSE 0), w>>]

\* Series.rolling(w).mean() on whole values: NaN until w observations are in
\* the window (min_periods is the window, and a missing value is no
\* observation), then the window's sum (the running total less the total
\* that left the window) over w
rolling_mean(s, w) ==
  LET total == cumsum(fillna_zero(s), 1, Len(s), 0)
      missing == IF \E i \in 1..Len(s) : s[i] = NaN
                   THEN cumsum(isna(s), 1, Len(s), 0)
                   ELSE [i \in 1..Len(s) |-> 0]
  IN [i \in 1..Len(s) |->
        IF i < w THEN NaN
        ELSE IF missing[i] - (IF i > w THEN missing[i - w] ELSE 0) > 0 THEN NaN
        ELSE <<total[i] - (IF i > w THEN total[i - w] ELSE 0), w>>]

\* Series.shift(1)
shift(s) == [i \in 1..Len(s) |-> IF i = 1 THEN NaN ELSE s[i - 1]]

Column(df, c) == [i \in 1..Len(df) |-> df[i][c]]

\* a DataFrame holds its rows as computed values
DataFrame(data) == data \o <<>>

\* ------------------------------------------------------------------------
\* PullbackUptrendSetup (src/src/setup_rules.py)
\* ------------------------------------------------------------------------
\* __init__: the thresholds are stored as given, nothing is validated
PullbackUptrendSetup(pullback_pct, use_volume) ==
  [pullback_pct |-> pullback_pct, use_volume |-> use_volume]

\* astype(float): the provider's columns are float64 already (Volume is a
\* whole number of shares), so the cast keeps each value
astype_float(x) == IF x = NaN THEN NaN ELSE <<x[1], x[2]>>

\* prepare: Close and Volume as floats, plus the three rolling means
prepare(df) ==
  LET close == [i \in 1..Len(df) |-> astype_float(df[i].Close)]
      volume == [i \in 1..Len(df) |-> astype_float(df[i].Volume)]
      sma20 == rolling_mean(close, SMA20_WINDOW)
      sma50 == rolling_mean(close, SMA50_WINDOW)
      vol20 == rolling_mean(volume, VOL_SMA20_WINDOW)
  IN DataFrame([i \in 1..Len(df) |->
        [Date |-> df[i].Date, Close |-> close[i], Volume |-> volume[i],
         SMA20 |-> sma20[i], SMA50 |-> sma50[i], VOL_SMA20 |-> vol20[i]]])

\* mutant: the reclaim is measured against SMA50
reclaim_sma50(df) == [i \in 1..Len(df) |-> df[i].Close # NaN /\ df[i].SMA50 # NaN
                        /\ df[i].Close[1] * df[i].SMA50[2] > df[i].SMA50[1] * df[i].Close[2]]

\* reclaim = df["Close"] > df["SMA20"]
reclaim(df) == [i \in 1..Len(df) |-> FGt(df[i].Close, df[i].SMA20)]

\* prev_close = df["Close"].shift(1), and likewise for the other columns
prev(df, c) == shift(Column(df, c))

\* apply: the boolean column "signal", one value per bar
signal(self, df) ==
  LET trend == [i \in 1..Len(df) |->
                  FGt(df[i].Close, df[i].SMA50) /\ FGt(df[i].SMA20, df[i].SMA50)]
      prev_close == prev(df, "Close")
      prev_sma20 == prev(df, "SMA20")
      pullback_near == [i \in 1..Len(df) |->
          FLe(FDiv(FAbs(FSub(prev_close[i], prev_sma20[i])), prev_sma20[i]),
              self.pullback_pct)]
      pullback_below_or_at == [i \in 1..Len(df) |-> FLe(prev_close[i], prev_sma20[i])]
      pullback_day == [i \in 1..Len(df) |-> pullback_near[i] /\ pullback_below_or_at[i]]
      rec == reclaim(df)
      base == [i \in 1..Len(df) |-> trend[i] /\ pullback_day[i] /\ rec[i]]
      prev_vol == prev(df, "Volume")
      prev_vol_sma20 == prev(df, "VOL_SMA20")
      quiet_pullback == [i \in 1..Len(df) |-> FLt(prev_vol[i], prev_vol_sma20[i])]
  IN IF self.use_volume
       THEN [i \in 1..Len(df) |-> base[i] /\ quiet_pullback[i]]
       ELSE base

apply(self, df) ==
  LET sig == signal(self, df)
  IN DataFrame([i \in 1..Len(df) |->
        [Date |-> df[i].Date, Close |-> df[i].Close, Volume |-> df[i].Volume,
         SMA20 |-> df[i].SMA20, SMA50 |-> df[i].SMA50,
         VOL_SMA20 |-> df[i].VOL_SMA20, signal |-> sig[i]]])

\* ------------------------------------------------------------------------
\* SetupScanner (src/src/scanner.py)
\* ------------------------------------------------------------------------
None == <<"None">>

\* date().isoformat(): the text of a calendar day
isoformat(d) == <<"iso", d>>

EXPECTED == {"Open", "High", "Low", "Close", "Volume"}

EmptyFrame == <<>>

\* what yf.download hands back: an exception, None, or a frame (its columns
\* and its rows; a row with a missing value has Close = NaN)
ProviderRaise == [kind |-> "raise", columns |-> {}, rows |-> <<>>]

ProviderNone == [kind |-> "none", columns |-> {}, rows |-> <<>>]

ProviderFrame(columns, data) == [kind |-> "frame", columns |-> columns, rows |-> data]

dropna_row(r) == r.Close # NaN

\* _download past the provider call: an empty frame for None, an empty frame
\* or one without the expected columns; else the complete rows
_download(raw) ==
  IF raw.kind = "none" \/ raw.rows = <<>> THEN EmptyFrame
  ELSE IF \E c \in EXPECTED : c \notin raw.columns THEN EmptyFrame
  ELSE SelectSeq(raw.rows, dropna_row)

\* mutant: an empty benchmark blocks the scan
market_ok_fail_closed(spy) ==
  IF spy = EmptyFrame
    THEN [ok |-> FALSE, last_date |-> None, spy_close |-> None, spy_sma200 |-> None]
    ELSE LET sma200 == rolling_mean(Column(spy, "Close"), SMA200_WINDOW)
             last == Len(spy)
         IN [ok |-> notna(sma200[last]) /\ FGt(spy[last].Close, sma200[last]),
             last_date |-> isoformat(spy[last].Date),
             spy_close |-> spy[last].Close,
             spy_sma200 |-> sma200[last]]

\* market_ok past the provider call; a frame _download returns is empty or
\* has a Close column without missing values, so line 42 tests emptiness
market_ok(spy) ==
  IF spy = EmptyFrame
    THEN [ok |-> TRUE, last_date |-> None, spy_close |-> None, spy_sma200 |-> None]
    ELSE LET sma200 == rolling_mean(Column(spy, "Close"), SMA200_WINDOW)
             last == Len(spy)
             spy_close == spy[last].Close
             spy_sma200 == sma200[last]
         IN [ok |-> notna(spy_sma200) /\ FGt(spy_close, spy_sma200),
             last_date |-> isoformat(spy[last].Date),
             spy_close |-> spy_close,
             spy_sma200 |-> spy_sma200]

\* mutant: the gate never short-circuits
blocked_never(m) == FALSE

\* line 62: the gate short-circuits the scan
blocked(m) == ~m.ok

\* line 68: "{c:.2f}" and "{sma:.2f}" format floats only
format_2f_raises(m) == m.spy_close = None \/ m.spy_sma200 = None

\* line 70
\* the slice ts[:m]
slice_to(ts, m) ==
  IF m >= Len(ts) THEN ts
  ELSE IF m >= 0 THEN SubSeq(ts, 1, m)
  ELSE IF Len(ts) + m >= 0 THEN SubSeq(ts, 1, Len(ts) + m)
  ELSE <<>>

tickers_to_scan(ts, m) == IF m # 0 THEN slice_to(ts, m) ELSE ts

\* mutant: a frame of exactly MIN_BARS bars is skipped too
skipped_at_min(df) == df = EmptyFrame \/ Len(df) <= MIN_BARS

\* line 75
skipped(df) == df = EmptyFrame \/ Len(df) < MIN_BARS

RECURSIVE sig_dates(_, _)
sig_dates(df, n) ==
  IF n = 0 THEN <<>>
  ELSE IF df[n].signal THEN Append(sig_dates(df, n - 1), df[n].Date)
  ELSE sig_dates(df, n - 1)

\* mutant: the signals are counted on the bars before the last one
scan_row_count_before_last(t, df) ==
  LET dates == sig_dates(df, Len(df))
  IN [ticker |-> t,
      has_signal_today |-> df[Len(df)].signal,
      last_date |-> isoformat(df[Len(df)].Date),
      most_recent_signal_date |->
        IF dates # <<>> THEN isoformat(dates[Len(dates)]) ELSE None,
      signals_in_lookback |-> Len(sig_dates(df, Len(df) - 1))]

\* mutant: the date of the first signal is reported as the most recent one
scan_row_first_signal(t, df) ==
  LET dates == sig_dates(df, Len(df))
  IN [ticker |-> t,
      has_signal_today |-> df[Len(df)].signal,
      last_date |-> isoformat(df[Len(df)].Date),
      most_recent_signal_date |->
        IF dates # <<>> THEN isoformat(dates[1]) ELSE None,
      signals_in_lookback |-> Len(dates)]

\* lines 81-93: one row of the result for ticker t, from its frame after apply
scan_row(t, df) ==
  LET dates == sig_dates(df, Len(df))
  IN [ticker |-> t,
      has_signal_today |-> df[Len(df)].signal,
      last_date |-> isoformat(df[Len(df)].Date),
      most_recent_signal_date |->
        IF dates # <<>> THEN isoformat(dates[Len(dates)]) ELSE None,
      signals_in_lookback |-> Len(dates)]

\* mutant: rows equal on both keys change places
key_before_or_equal(a, b) ==
  \/ a.has_signal_today /\ ~b.has_signal_today
  \/ a.has_signal_today = b.has_signal_today
       /\ a.signals_in_lookback >= b.signals_in_lookback

\* sort key, descending on both columns: True before False, then more signals
key_before(a, b) ==
  \/ a.has_signal_today /\ ~b.has_signal_today
  \/ a.has_signal_today = b.has_signal_today
       /\ a.signals_in_lookback > b.signals_in_lookback

\* insert r behind every row that does not sort after it (stable)
RECURSIVE insert_sorted(_, _)
insert_sorted(sorted, r) ==
  IF sorted = <<>> THEN <<r>>
  ELSE IF key_before(r, Head(sorted)) THEN <<r>> \o sorted
  ELSE <<Head(sorted)>> \o insert_sorted(Tail(sorted), r)

\* DataFrame.sort_values(by=[has_signal_today, signals_in_lookback],
\* ascending=[False, False]): pandas' multi-key sort is stable
RECURSIVE sort_values(_)
sort_values(records) ==
  IF records = <<>> THEN <<>>
  ELSE insert_sorted(sort_values(SubSeq(records, 1, Len(records) - 1)),
                     records[Len(records)])

\* ------------------------------------------------------------------------
\* SimpleExitRules (src/src/exit_rules.py) and the alert loop (src/alert.py)
\* ------------------------------------------------------------------------
\* __init__: the thresholds are stored as given, nothing is validated
SimpleExitRules(stop_loss_pct, profit_target_pct, max_hold_days) ==
  [stop_loss_pct |-> stop_loss_pct, profit_target_pct |-> profit_target_pct,
   max_hold_days |-> max_hold_days]

calculate_exits(self, entry_price) ==
  [stop_loss |-> FMul(entry_price, FSub(R(1), self.stop_loss_pct)),
   profit_target |-> FMul(entry_price, FAdd(R(1), self.profit_target_pct)),
   max_hold_days |-> self.max_hold_days]

\* a calendar day
date(d) == <<"date", d>>

\* (a - b).days
days_between(a, b) == R(a[2] - b[2])

\* Python truth of a number or None
truthy(x) == x # None /\ x[1] # 0

\* mutant: a close on the stop price is not a hit
stop_hit_strict(latest_close, stop) == FLt(latest_close, stop)

\* line 161
stop_hit(latest_close, stop) == FLe(latest_close, stop)

\* line 168
target_hit(latest_close, target) == FGe(latest_close, target)

\* the text " | Day n/10" is added only for a truthy days_held
day_shown(days_held) == IF truthy(days_held) THEN days_held ELSE None

\* list.sort(key=pnl_pct, reverse=True): stable, larger P&L first
RECURSIVE insert_by_pnl(_, _)
insert_by_pnl(sorted, d) ==
  IF sorted = <<>> THEN <<d>>
  ELSE IF FGt(d.pnl_pct, Head(sorted).pnl_pct) THEN <<d>> \o sorted
  ELSE <<Head(sorted)>> \o insert_by_pnl(Tail(sorted), d)

RECURSIVE sort_by_pnl(_)
sort_by_pnl(data) ==
  IF data = <<>> THEN <<>>
  ELSE insert_by_pnl(sort_by_pnl(SubSeq(data, 1, Len(data) - 1)), data[Len(data)])

RECURSIVE sum_pnl(_)
sum_pnl(data) ==
  IF data = <<>> THEN R(0) ELSE FAdd(sum_pnl(Tail(data)), Head(data).pnl_pct)

\* lines 205-228: the status message when no alert fired
status_message(data) ==
  IF data # <<>>
    THEN [kind |-> "status",
          avg_pnl |-> FDiv(sum_pnl(data), R(Len(data))),
          lines |-> [n \in 1..Len(data) |->
                       [ticker |-> sort_by_pnl(data)[n].ticker,
                        pnl_pct |-> sort_by_pnl(data)[n].pnl_pct,
                        day |-> day_shown(sort_by_pnl(data)[n].days_held),
                        near_target |->
                          FLt(sort_by_pnl(data)[n].distance_to_target, R(1))]]]
    ELSE [kind |-> "none", avg_pnl |-> None, lines |-> <<>>]

\* ------------------------------------------------------------------------
\* Ranking (src/src/ranking.py) and its caller (src/main.py lines 47-57)
\* ------------------------------------------------------------------------
\* Series.iloc[-k] raises IndexError on a series of fewer than k values
iloc_raises(series, k) == Len(series) < k

\* Series.iloc[-k]: the k-th value from the end
iloc_from_end(series, k) == series[Len(series) - k + 1].Close

\* line 14
rs_insufficient(stock, spy, lookback_days) ==
  stock.rows = <<>> \/ spy.rows = <<>> \/ Len(stock.rows) < lookback_days

\* lines 24-25: close[-1] / close[-lookback_days] - 1
period_return(series, lookback_days) ==
  FSub(FDiv(iloc_from_end(series, 1), iloc_from_end(series, lookback_days)), R(1))

RECURSIVE gcd(_, _)
gcd(a, b) == IF b = 0 THEN a ELSE gcd(b, a % b)

\* line 28, float(...): a float is one value per number, so the fraction is
\* kept in lowest terms
float(x) ==
  IF x = NaN \/ x[2] = 0 THEN x
  ELSE <<x[1] \div gcd(AbsInt(x[1]), x[2]), x[2] \div gcd(AbsInt(x[1]), x[2])>>

\* mutant: a failed calculation scores as the worst performer
on_exception_worst == R(-100)

\* lines 30-32: what the except clause returns
on_exception == R(0)

\* calculate_relative_strength past the two provider calls (stock, then spy;
\* spy is NotAsked when the stock download raised): anything the body raises
\* (the provider's exception, .empty on None, a missing Close column, iloc
\* beyond a short benchmark) ends in the except clause
calculate_relative_strength(stock, spy, lookback_days) ==
  IF stock.kind = "raise" \/ spy.kind = "raise" THEN on_exception
  ELSE IF stock.kind = "none" \/ spy.kind = "none" THEN on_exception
  ELSE IF rs_insufficient(stock, spy, lookback_days) THEN R(0)
  ELSE IF "Close" \notin stock.columns \/ "Close" \notin spy.columns THEN on_exception
  ELSE IF iloc_raises(spy.rows, lookback_days) THEN on_exception
  ELSE float(FMul(FSub(period_return(stock.rows, lookback_days),
                       period_return(spy.rows, lookback_days)), R(100)))

\* mutant: the weakest momentum first
rs_order_ascending(a, b) == ~FGt(a, b)

\* sort_values(ascending=False): no value stands before a larger one
rs_order(a, b) == ~FLt(a, b)

\* line 50: positions p is an order sort_values("relative_strength",
\* ascending=False) can put the rows of df in.  The default kind is
\* quicksort, which is not stable: rows with equal values come out in any
\* order.  Missing values go last (na_position), in their input order.
sort_positions(df, p) ==
  \A i, j \in 1..Len(df) :
    i < j =>
      /\ rs_order(df[p[i]].relative_strength, df[p[j]].relative_strength)
      /\ df[p[i]].relative_strength = NaN
           => df[p[j]].relative_strength = NaN /\ p[i] < p[j]

\* lines 50-51: the rows in the order p, with rank = range(1, len(df) + 1)
with_rank(df, p) ==
  [i \in 1..Len(df) |->
     [ticker |-> df[p[i]].ticker,
      has_signal_today |-> df[p[i]].has_signal_today,
      last_date |-> df[p[i]].last_date,
      most_recent_signal_date |-> df[p[i]].most_recent_signal_date,
      signals_in_lookback |-> df[p[i]].signals_in_lookback,
      relative_strength |-> df[p[i]].relative_strength,
      rank |-> i]]

\* line 47: the column of scores joined to the rows
with_relative_strength(df, rs) ==
  [i \in 1..Len(df) |->
     [ticker |-> df[i].ticker,
      has_signal_today |-> df[i].has_signal_today,
      last_date |-> df[i].last_date,
      most_recent_signal_date |-> df[i].most_recent_signal_date,
      signals_in_lookback |-> df[i].signals_in_lookback,
      relative_strength |-> rs[i]]]

\* mutant: every record of the scan is handed to the ranker
select_all(r) == TRUE

\* main.py line 49: the mask results["has_signal_today"]
has_signal_today_mask(r) == r.has_signal_today

\* ------------------------------------------------------------------------
\* Daily bar series the provider can hand out
\* ------------------------------------------------------------------------
BaseVolume == 10

TrendBase == 100

MaxBars == 60

\* a series of n bars on consecutive days: a linear trend, then the tail bars
\* (offset from the trend, volume) as its last Len(tail) bars; the row at
\* nanAt (if any) has no close
MkSeries(n, start, base, slope, tail, nanAt) ==
  DataFrame([i \in 1..n |->
     LET j == i - (n - Len(tail))
     IN [Date |-> start + i,
         Close |-> IF i = nanAt THEN NaN
                   ELSE R(base + slope * i + (IF j >= 1 THEN tail[j].dc ELSE 0)),
         Volume |-> R(IF j >= 1 THEN tail[j].v ELSE BaseVolume)]])

\* one tail bar: far below the trend, just below / at / just above its SMA20
\* on a rising trend, or on the trend; on quiet or on average volume
TailBars ==
  {[dc |-> -30, v |-> BaseVolume - 1], [dc |-> -12, v |-> BaseVolume - 1],
   [dc |-> -10, v |-> BaseVolume - 1], [dc |-> -10, v |-> BaseVolume],
   [dc |-> -9, v |-> BaseVolume - 1], [dc |-> 0, v |-> BaseVolume],
   [dc |-> 0, v |-> BaseVolume - 1]}

SeriesLengths == {1, SMA20_WINDOW + 1, SMA50_WINDOW + 1, MaxBars}

Slopes == {0, 1}

BarSeries ==
  {MkSeries(n, 0, TrendBase, m, <<t1, t2>>, 0) :
     n \in SeriesLengths, m \in Slopes, t1 \in TailBars, t2 \in TailBars}

\* series s with the value of column c missing at bar k
Gap(s, c, k) == [s EXCEPT ![k][c] = NaN]

\* rising series of MaxBars bars with one missing value: a volume inside the
\* last VOL_SMA20 windows, a close that leaves the last SMA50 windows whole,
\* or a close inside them
GapSeries ==
  {Gap(MkSeries(MaxBars, 0, TrendBase, 1, <<t1, t2>>, 0), g[1], g[2]) :
     t1 \in TailBars, t2 \in TailBars,
     g \in {<<"Volume", MaxBars - 3>>, <<"Close", MaxBars - SMA50_WINDOW - 1>>,
            <<"Close", MaxBars - SMA20_WINDOW - 5>>}}

\* thresholds a caller can construct the setup with (fractions of 1):
\* __init__ takes any float, a negative one too
PullbackPcts == {<<-1, 100>>, <<0, 100>>, <<2, 100>>}

Setups == {PullbackUptrendSetup(p, u) : p \in PullbackPcts, u \in BOOLEAN}

\* main.py lines 36-39: the setup the scanner is run with
ScanSetup == PullbackUptrendSetup(<<2, 100>>, TRUE)

Quiet(dc) == [dc |-> dc, v |-> BaseVolume - 1]

OnTrend == [dc |-> 0, v |-> BaseVolume]

Rising(n, tail, nanAt) ==
  ProviderFrame(EXPECTED, MkSeries(n, 0, TrendBase, 1, tail, nanAt))

\* what the provider can answer for a ticker
TickerFrames ==
  << ProviderRaise,
     ProviderNone,
     ProviderFrame(EXPECTED, <<>>),
     ProviderFrame(EXPECTED \ {"Volume"},
                   MkSeries(MIN_BARS, 0, TrendBase, 1, <<Quiet(-10), OnTrend>>, 0)),
     Rising(MIN_BARS - 1, <<Quiet(-10), OnTrend>>, 0),
     Rising(MIN_BARS, <<Quiet(-10), OnTrend>>, 3),
     Rising(MIN_BARS + 1, <<Quiet(-10), OnTrend>>, 3),
     ProviderFrame(EXPECTED, MkSeries(MIN_BARS, 0, TrendBase, 0, <<>>, 0)),
     Rising(MIN_BARS, <<Quiet(-10), OnTrend>>, 0),
     Rising(MIN_BARS + 1, <<Quiet(-10), OnTrend, OnTrend>>, 0),
     Rising(MIN_BARS + 2, <<Quiet(-10), OnTrend, Quiet(-11), OnTrend>>, 0),
     Rising(MIN_BARS + 3, <<Quiet(-10), OnTrend, Quiet(-11), OnTrend, OnTrend>>, 0) >>

Flat(n, last) ==
  ProviderFrame(EXPECTED,
                MkSeries(n, 0, TrendBase, 0, <<[dc |-> last, v |-> BaseVolume]>>, 0))

\* what the provider can answer for the benchmark
BenchFrames ==
  << ProviderRaise,
     ProviderFrame(EXPECTED, <<>>),
     ProviderFrame(EXPECTED, MkSeries(1, 0, TrendBase, 0, <<>>, 1)),
     Flat(1, 1),
     Flat(SMA200_WINDOW - 1, 1),
     Flat(SMA200_WINDOW, 1),
     Flat(SMA200_WINDOW, 0),
     Flat(SMA200_WINDOW, -1),
     Flat(SMA200_WINDOW + 1, 1) >>

\* alert.py lines 102-106: the exit rules the alert loop is run with
AlertExitRules == SimpleExitRules(<<2, 100>>, <<7, 100>>, 10)

\* a quarter of flat closes at 100 that ends on the given close
Quarter(n, last) ==
  ProviderFrame(EXPECTED,
                MkSeries(n, 0, 100, 0, <<[dc |-> last - 100, v |-> BaseVolume]>>, 0))

\* what the provider can answer for a position's ticker
AlertFrames ==
  << ProviderRaise,
     Quarter(SMA50_WINDOW - 1, 102),
     Quarter(SMA50_WINDOW, 97),
     Quarter(SMA50_WINDOW, 98),
     Quarter(SMA50_WINDOW, 102),
     Quarter(SMA50_WINDOW, 107),
     Quarter(SMA50_WINDOW, 108) >>

\* rows of the position sheet as read_tickers_from_sheet returns them, less
\* the ticker: entry price and signal date, each possibly missing
SheetRows ==
  { [buy_price |-> R(100), signal_date |-> date(89)],
    [buy_price |-> R(100), signal_date |-> date(90)],
    [buy_price |-> R(100), signal_date |-> date(95)],
    [buy_price |-> R(100), signal_date |-> None],
    [buy_price |-> None, signal_date |-> date(95)],
    [buy_price |-> R(0), signal_date |-> date(100)] }

MaxPositions == 2

Sheets ==
  UNION {[1..n -> SheetRows] : n \in 0..MaxPositions}

MaxTickers == 2

TickerNames == <<"AAA", "BBB", "CCC", "DDD", "EEE", "FFF">>

\* main.py line 31: the universe holds each ticker once
Universe == SubSeq(TickerNames, 1, MaxTickers)

NotCalled == [called |-> FALSE]

\* a download that was not made
NotAsked == [kind |-> "unasked", columns |-> {}, rows |-> <<>>]

\* three months of bars on a line, the last one off it by `last`
Steady(n, slope, last, nanAt) ==
  ProviderFrame(EXPECTED,
                MkSeries(n, 0, TrendBase, slope, <<[dc |-> last, v |-> BaseVolume]>>,
                         nanAt))

\* the provider's two answers inside one calculate_relative_strength
Answers(stock, spy) == [stock |-> stock, spy |-> spy]

Rise(n) == Steady(n, 1, 0, 0)

Level(n, last) == Steady(n, 0, last, 0)

\* what the provider can answer for a ranked ticker and for its benchmark:
\* an exception, no bars, one bar less than the lookback, exactly the
\* lookback or one bar more (rising, level, level with a last close 5
\* lower, rising with the last close missing)
RsAnswers ==
  << Answers(ProviderRaise, NotAsked),
     Answers(Rise(LOOKBACK_DAYS + 1), ProviderRaise),
     Answers(ProviderFrame(EXPECTED, <<>>), Level(LOOKBACK_DAYS, 0)),
     Answers(Rise(LOOKBACK_DAYS + 1), ProviderFrame(EXPECTED, <<>>)),
     Answers(Rise(LOOKBACK_DAYS - 1), Level(LOOKBACK_DAYS, 0)),
     Answers(Rise(LOOKBACK_DAYS + 1), Level(LOOKBACK_DAYS - 1, 0)),
     Answers(Rise(LOOKBACK_DAYS), Level(LOOKBACK_DAYS, 0)),
     Answers(Rise(LOOKBACK_DAYS + 1), Level(LOOKBACK_DAYS + 1, 0)),
     Answers(Rise(LOOKBACK_DAYS + 1), Rise(LOOKBACK_DAYS + 1)),
     Answers(Level(LOOKBACK_DAYS + 1, 0), Level(LOOKBACK_DAYS + 1, 0)),
     Answers(Level(LOOKBACK_DAYS + 1, -5), Level(LOOKBACK_DAYS, 0)),
     Answers(Steady(LOOKBACK_DAYS + 1, 1, 0, LOOKBACK_DAYS + 1), Level(LOOKBACK_DAYS, 0)) >>

\* scanner.py lines 87-93: the record of a ticker whose last bar is or is not
\* flagged
SignalRecord(t, flag) ==
  [ticker |-> t,
   has_signal_today |-> flag,
   last_date |-> isoformat(100),
   most_recent_signal_date |-> IF flag THEN isoformat(100) ELSE None,
   signals_in_lookback |-> IF flag THEN 1 ELSE 0]

\* what scan can return to main: a frame of sorted records (none after a
\* blocking market filter), or the frame without columns that
\* pd.DataFrame([]) is when every ticker was skipped
ScanResults ==
  UNION {{[columns |-> TRUE,
           rows |-> sort_values([i \in 1..n |-> SignalRecord(Universe[i], f[i])])] :
            f \in [1..n -> BOOLEAN]} : n \in 0..MaxTickers}
    \cup {[columns |-> FALSE, rows |-> <<>>]}

\* ------------------------------------------------------------------------
\* State
\* ------------------------------------------------------------------------
VARIABLES
  setup,              \* the PullbackUptrendSetup in use
  bars,               \* detector run: the raw bar series handed to prepare
  frame,              \* detector run: the DataFrame as prepare / apply returned it
  dpc,                \* detector run: "raw", "prepared" or "applied"
  require_market_ok,  \* SetupScanner.require_market_ok
  tickers,            \* scan: the ticker list passed in
  max_tickers,        \* scan: the cap passed in (0: None)
  spc,                \* scan: "call", "loop", "returned" or "raised"
  idx,                \* scan: tickers done by the loop
  rows,               \* scan: the rows collected so far
  out,                \* scan: the DataFrame returned
  mkt,                \* scan: what market_ok returned (NotCalled before)
  exc,                \* scan: where the exception that ended scan came from
  calls,              \* provider: the symbols downloaded, in call order
  bench,              \* provider: its answer for the benchmark (0: not asked)
  provided,           \* provider: its answer for each ticker asked, in order
  detected,           \* tickers that went through prepare and apply
  exit_rules,         \* alert: the SimpleExitRules in use
  sheet,              \* alert: the rows of the position sheet
  today,              \* alert: datetime.now().date()
  apc,                \* alert: "loop", "sent" or "raised"
  pidx,               \* alert: sheet rows done by the loop
  alerts,             \* alert: the alerts collected so far
  status_data,        \* alert: the positions in neither alert branch
  evals,              \* alert: the positions that reached position tracking
  sent,               \* alert: the message handed to the webhook
  quotes,             \* provider: the bars it holds for each position when
                      \* they are the same from run to run (<<>>: any)
  run,                \* alert: 1 in a first run of main, 2 in a run repeated
  first,              \* alert: what the first run was given and put out
  results,            \* main: the frame scan returned
  today_df,           \* main: the frame "today" (today's signals, then ranked)
  rpc,                \* main: "main", "rank", "done" or "raised"
  scores,             \* rank_signals: the relative strengths computed so far
  rs_calls,           \* provider: the symbols the ranker downloaded, in order
  rs_provided         \* provider: its answers per record (index in RsAnswers)

detVars == <<bars, frame, dpc>>

scanVars == <<require_market_ok, tickers, max_tickers, spc, idx, rows, out, mkt,
              exc, calls, bench, provided, detected>>

alertVars == <<exit_rules, sheet, today, apc, pidx, alerts, status_data, evals, sent,
               quotes, run, first>>

rankVars == <<results, today_df, rpc, scores, rs_calls, rs_provided>>

vars == <<setup, detVars, scanVars, alertVars, rankVars>>

RankIdle ==
  /\ results = [columns |-> FALSE, rows |-> <<>>]
  /\ today_df = <<>>
  /\ rpc = "idle"
  /\ scores = <<>>
  /\ rs_calls = <<>>
  /\ rs_provided = <<>>

NoMessage == [kind |-> "none", body |-> <<>>]

\* no run of main has ended yet
NoRun == [alerts |-> <<>>, status_data |-> <<>>]

AlertIdle ==
  /\ exit_rules = AlertExitRules
  /\ sheet = <<>>
  /\ today = date(100)
  /\ apc = "idle"
  /\ pidx = 0
  /\ alerts = <<>>
  /\ status_data = <<>>
  /\ evals = <<>>
  /\ sent = NoMessage
  /\ quotes = <<>>
  /\ run = 1
  /\ first = NoRun

ScanIdle ==
  /\ require_market_ok = FALSE
  /\ tickers = <<>>
  /\ max_tickers = 0
  /\ spc = "idle"
  /\ idx = 0
  /\ rows = <<>>
  /\ out = <<>>
  /\ mkt = NotCalled
  /\ exc = ""
  /\ calls = <<>>
  /\ bench = 0
  /\ provided = <<>>
  /\ detected = <<>>

DetectIdle ==
  /\ bars = <<>>
  /\ frame = <<>>
  /\ dpc = "idle"

\* ------------------------------------------------------------------------
\* Detector run: prepare, then apply, on one series
\* ------------------------------------------------------------------------
InitDetect ==
  /\ setup \in Setups
  /\ bars \in BarSeries \cup GapSeries
  /\ frame = <<>>
  /\ dpc = "raw"
  /\ ScanIdle
  /\ AlertIdle
  /\ RankIdle

Prepare ==
  /\ dpc = "raw"
  /\ frame' = prepare(bars)
  /\ dpc' = "prepared"
  /\ UNCHANGED <<setup, bars, scanVars, alertVars, rankVars>>

Apply ==
  /\ dpc = "prepared"
  /\ frame' = apply(setup, frame)
  /\ dpc' = "applied"
  /\ UNCHANGED <<setup, bars, scanVars, alertVars, rankVars>>

NextDetect == Prepare \/ Apply

SpecDetect == InitDetect /\ [][NextDetect]_vars

\* ------------------------------------------------------------------------
\* SetupScanner.scan: one call
\* ------------------------------------------------------------------------
InitScan ==
  /\ setup = ScanSetup
  /\ DetectIdle
  /\ require_market_ok \in BOOLEAN
  /\ tickers \in {SubSeq(Universe, 1, n) : n \in 0..MaxTickers}
  /\ max_tickers \in {0, 1}
  /\ spc = "call"
  /\ idx = 0
  /\ rows = <<>>
  /\ out = <<>>
  /\ mkt = NotCalled
  /\ exc = ""
  /\ calls = <<>>
  /\ bench = 0
  /\ provided = <<>>
  /\ detected = <<>>
  /\ AlertIdle
  /\ RankIdle

\* line 60: the market filter is not required
GateSkipped ==
  /\ spc = "call"
  /\ ~require_market_ok
  /\ spc' = "loop"
  /\ UNCHANGED <<alertVars, rankVars, setup, detVars, require_market_ok, tickers, max_tickers, idx,
                 rows, out, mkt, exc, calls, bench, provided, detected>>

\* lines 60-68: market_ok downloads the benchmark; the scan returns an empty
\* frame when the gate blocks, else prints the pass message and goes on
MarketFilter ==
  /\ spc = "call"
  /\ require_market_ok
  /\ LET answers == BenchFrames IN \E b \in 1..Len(answers) :
       /\ calls' = Append(calls, "SPY")
       /\ bench' = b
       /\ IF answers[b].kind = "raise"
            THEN /\ spc' = "raised"
                 /\ exc' = "market_ok"
                 /\ UNCHANGED <<mkt, out>>
            ELSE LET m == market_ok(_download(answers[b]))
                 IN /\ mkt' = m
                    /\ IF blocked(m)
                         THEN /\ out' = EmptyFrame
                              /\ spc' = "returned"
                              /\ exc' = exc
                         ELSE IF format_2f_raises(m)
                           THEN /\ spc' = "raised"
                                /\ exc' = "format"
                                /\ out' = out
                           ELSE /\ spc' = "loop"
                                /\ UNCHANGED <<exc, out>>
  /\ UNCHANGED <<alertVars, rankVars, setup, detVars, require_market_ok, tickers, max_tickers, idx,
                 rows, provided, detected>>

\* lines 73-96: one pass of the loop; nothing catches what the provider raises
ScanTicker ==
  /\ spc = "loop"
  /\ idx < Len(tickers_to_scan(tickers, max_tickers))
  /\ LET answers == TickerFrames IN \E k \in 1..Len(answers) :
       LET t == tickers_to_scan(tickers, max_tickers)[idx + 1]
       IN /\ calls' = Append(calls, t)
          /\ provided' = Append(provided, k)
          /\ IF answers[k].kind = "raise"
               THEN /\ spc' = "raised"
                    /\ exc' = "ticker"
                    /\ UNCHANGED <<idx, rows, detected>>
               ELSE LET df == _download(answers[k])
                    IN /\ idx' = idx + 1
                       /\ UNCHANGED <<spc, exc>>
                       /\ IF skipped(df)
                            THEN UNCHANGED <<rows, detected>>
                            ELSE /\ rows' = Append(rows,
                                      scan_row(t, apply(setup, prepare(df))))
                                 /\ detected' = Append(detected, t)
  /\ UNCHANGED <<alertVars, rankVars, setup, detVars, require_market_ok, tickers, max_tickers, out,
                 mkt, bench>>

\* lines 98-107: the rows as a frame, sorted unless empty
ScanReturn ==
  /\ spc = "loop"
  /\ idx = Len(tickers_to_scan(tickers, max_tickers))
  /\ out' = IF rows = <<>> THEN EmptyFrame ELSE sort_values(rows)
  /\ spc' = "returned"
  /\ UNCHANGED <<alertVars, rankVars, setup, detVars, require_market_ok, tickers, max_tickers, idx,
                 rows, mkt, exc, calls, bench, provided, detected>>

NextScan == GateSkipped \/ MarketFilter \/ ScanTicker \/ ScanReturn

SpecScan == InitScan /\ [][NextScan]_vars

\* ------------------------------------------------------------------------
\* alert.py main: one run over the position sheet
\* ------------------------------------------------------------------------
InitAlert ==
  /\ setup = ScanSetup
  /\ DetectIdle
  /\ ScanIdle
  /\ RankIdle
  /\ exit_rules = AlertExitRules
  /\ sheet \in Sheets
  /\ today = date(100)
  /\ apc = "loop"
  /\ pidx = 0
  /\ alerts = <<>>
  /\ status_data = <<>>
  /\ evals = <<>>
  /\ sent = NoMessage
  /\ quotes = <<>>
  /\ run = 1
  /\ first = NoRun

\* lines 115-194: one pass of the loop; the except clause swallows whatever
\* the pass raises and the loop goes on
AlertTicker ==
  /\ apc = "loop"
  /\ pidx < Len(sheet)
  /\ pidx' = pidx + 1
  /\ LET answers == AlertFrames IN \E f \in 1..Len(answers) :
       /\ quotes # <<>> => f = quotes[pidx + 1]
       /\ LET answer == answers[f]
              ticker == TickerNames[pidx + 1]
              buy_price == sheet[pidx + 1].buy_price
              signal_date == sheet[pidx + 1].signal_date
              df == answer.rows
              sma50 == rolling_mean(Column(df, "Close"), SMA50_WINDOW)
              latest_close == df[Len(df)].Close
              latest_sma50 == sma50[Len(df)]
              below == IF FLt(latest_close, latest_sma50)
                         THEN <<[kind |-> "BELOW_SMA50", ticker |-> ticker]>>
                         ELSE <<>>
              pnl_pct == FMul(FDiv(FSub(latest_close, buy_price), buy_price), R(100))
              exits == calculate_exits(exit_rules, buy_price)
              stop == exits.stop_loss
              target == exits.profit_target
              days_held == IF signal_date # None
                             THEN days_between(today, signal_date) ELSE None
              distance_to_target ==
                FMul(FDiv(FSub(target, latest_close), latest_close), R(100))
          IN IF answer.kind = "raise"
               THEN UNCHANGED <<alerts, status_data, evals>>
             ELSE IF df = <<>> \/ Len(df) < SMA50_WINDOW
               THEN UNCHANGED <<alerts, status_data, evals>>
             ELSE IF ~truthy(buy_price)
               THEN /\ alerts' = alerts \o below
                    /\ UNCHANGED <<status_data, evals>>
             ELSE IF latest_close[1] = 0
               THEN \* ZeroDivisionError at line 158, after the SMA50 alert
                    /\ alerts' = alerts \o below
                    /\ UNCHANGED <<status_data, evals>>
             ELSE /\ evals' = Append(evals,
                              [ticker |-> ticker, buy_price |-> buy_price,
                               latest_close |-> latest_close, days_held |-> days_held])
                  /\ IF stop_hit(latest_close, stop)
                       THEN /\ alerts' = alerts \o below \o
                                 <<[kind |-> "STOP_HIT", ticker |-> ticker,
                                    pnl_pct |-> pnl_pct, level |-> stop,
                                    day |-> day_shown(days_held)]>>
                            /\ UNCHANGED status_data
                     ELSE IF target_hit(latest_close, target)
                       THEN /\ alerts' = alerts \o below \o
                                 <<[kind |-> "TARGET_HIT", ticker |-> ticker,
                                    pnl_pct |-> pnl_pct, level |-> target,
                                    day |-> day_shown(days_held)]>>
                            /\ UNCHANGED status_data
                     ELSE /\ alerts' = alerts \o below
                          /\ status_data' = Append(status_data,
                               [ticker |-> ticker, pnl_pct |-> pnl_pct,
                                days_held |-> days_held,
                                distance_to_target |-> distance_to_target])
  /\ UNCHANGED <<setup, detVars, scanVars, rankVars, exit_rules, sheet, today, apc, sent,
                 quotes, run, first>>

\* lines 197-228: the alerts if any, else the status of the positions sorted
\* by P&L, go to the webhook, which may fail
AlertSend ==
  /\ apc = "loop"
  /\ pidx = Len(sheet)
  /\ \E delivered \in BOOLEAN :
       /\ apc' = IF delivered THEN "sent" ELSE "raised"
       /\ IF alerts # <<>>
            THEN /\ sent' = [kind |-> "alerts", body |-> alerts]
                 /\ UNCHANGED status_data
            ELSE /\ sent' = [kind |-> status_message(status_data).kind,
                             body |-> status_message(status_data).lines]
                 /\ status_data' = sort_by_pnl(status_data)
  /\ UNCHANGED <<setup, detVars, scanVars, rankVars, exit_rules, sheet, today, pidx, alerts,
                 evals, quotes, run, first>>

NextAlert == AlertTicker \/ AlertSend

SpecAlert == InitAlert /\ [][NextAlert]_vars

\* ------------------------------------------------------------------------
\* alert.py main run a second time on the same sheet and the same bars
\* ------------------------------------------------------------------------
\* a first run of main on a sheet, with the bars the provider holds for each
\* of its positions
InitRerun ==
  /\ setup = ScanSetup
  /\ DetectIdle
  /\ ScanIdle
  /\ RankIdle
  /\ exit_rules = AlertExitRules
  /\ sheet \in Sheets
  /\ today = date(100)
  /\ apc = "loop"
  /\ pidx = 0
  /\ alerts = <<>>
  /\ status_data = <<>>
  /\ evals = <<>>
  /\ sent = NoMessage
  /\ quotes \in [1..Len(sheet) -> 1..Len(AlertFrames)]
  /\ run = 1
  /\ first = NoRun

\* the clock a later call of datetime.now() can read: the same day or the next
later(d) == {d, date(d[2] + 1)}

\* main is started again (the script is run on a schedule): every local of
\* main starts afresh, the sheet and the provider's bars are as in the first
\* run, and datetime.now() has moved on or not
RunAgain ==
  /\ run = 1
  /\ apc \in {"sent", "raised"}
  /\ first' = [alerts |-> alerts, status_data |-> status_data]
  /\ run' = 2
  /\ today' \in later(today)
  /\ apc' = "loop"
  /\ pidx' = 0
  /\ alerts' = <<>>
  /\ status_data' = <<>>
  /\ evals' = <<>>
  /\ sent' = NoMessage
  /\ UNCHANGED <<setup, detVars, scanVars, rankVars, exit_rules, sheet, quotes>>

NextRerun == AlertTicker \/ AlertSend \/ RunAgain

SpecRerun == InitRerun /\ [][NextRerun]_vars

\* ------------------------------------------------------------------------
\* main.py lines 47-57: today's signals are ranked
\* ------------------------------------------------------------------------
InitRank ==
  /\ setup = ScanSetup
  /\ DetectIdle
  /\ ScanIdle
  /\ AlertIdle
  /\ results \in ScanResults
  /\ today_df = <<>>
  /\ rpc = "main"
  /\ scores = <<>>
  /\ rs_calls = <<>>
  /\ rs_provided = <<>>

\* main.py lines 49-51: the records flagged today; rank_signals is called
\* when there are some.  A frame without columns raises KeyError at line 49.
SelectToday ==
  /\ rpc = "main"
  /\ IF ~results.columns
       THEN /\ rpc' = "raised"
            /\ UNCHANGED today_df
       ELSE /\ today_df' = SelectSeq(results.rows, has_signal_today_mask)
            /\ rpc' = IF SelectSeq(results.rows, has_signal_today_mask) = <<>>
                        THEN "done" ELSE "rank"
  /\ UNCHANGED <<setup, detVars, scanVars, alertVars, results, scores, rs_calls,
                 rs_provided>>

\* ranking.py line 47: calculate_relative_strength on the next ticker; the
\* benchmark is downloaded again for each ticker, unless the ticker's own
\* download raised
RelativeStrength ==
  /\ rpc = "rank"
  /\ Len(scores) < Len(today_df)
  /\ LET answers == RsAnswers
         t == today_df[Len(scores) + 1].ticker
     IN \E a \in 1..Len(answers) :
          /\ rs_calls' = IF answers[a].stock.kind = "raise"
                            THEN Append(rs_calls, t)
                            ELSE rs_calls \o <<t, "SPY">>
          /\ rs_provided' = Append(rs_provided, a)
          /\ scores' = Append(scores,
                calculate_relative_strength(answers[a].stock, answers[a].spy,
                                            LOOKBACK_DAYS))
  /\ UNCHANGED <<setup, detVars, scanVars, alertVars, results, today_df, rpc>>

\* ranking.py lines 47-53 and main.py lines 52-57: the scores become a
\* column, the rows are sorted on it and numbered; results.update changes no
\* value of results (the ranked frame's own columns are not in it)
Rank ==
  /\ rpc = "rank"
  /\ Len(scores) = Len(today_df)
  /\ \E p \in Permutations(1..Len(today_df)) :
       /\ sort_positions(with_relative_strength(today_df, scores), p)
       /\ today_df' = with_rank(with_relative_strength(today_df, scores), p)
  /\ rpc' = "done"
  /\ UNCHANGED <<setup, detVars, scanVars, alertVars, results, scores, rs_calls,
                 rs_provided>>

NextRank == SelectToday \/ RelativeStrength \/ Rank

SpecRank == InitRank /\ [][NextRank]_vars

\* ------------------------------------------------------------------------
\* Claims on the detector
\* ------------------------------------------------------------------------
\* the sum of column col over the w bars that end at bar t (whole values)
RECURSIVE WindowSum(_, _, _, _)
WindowSum(s, col, t, w) ==
  IF w = 0 THEN 0
  ELSE IF w = 1 THEN s[t][col][1]
  ELSE WindowSum(s, col, t - (w \div 2), w - (w \div 2))
         + WindowSum(s, col, t, w \div 2)

\* column col has a value at each of the w bars that end at bar t
Complete(s, col, t, w) == \A k \in (t - w + 1)..t : s[k][col] # NaN

\* num/den <= f over the reals, for a fraction f = <<fn, fd>> with fd > 0
RatioLe(num, den, f) ==
  \/ den > 0 /\ num * f[2] <= f[1] * den
  \/ den < 0 /\ num * f[2] >= f[1] * den

\* the rule of the setup at bar t of series s, on the raw bars (whole prices
\* and volumes): every moving average is the plain mean of its window and is
\* undefined on a short window or on one with a missing value
RuleAt(s, self, t) ==
  LET s20 == WindowSum(s, "Close", t, SMA20_WINDOW)
      s50 == WindowSum(s, "Close", t, SMA50_WINDOW)
      p20 == WindowSum(s, "Close", t - 1, SMA20_WINDOW)
      pv20 == WindowSum(s, "Volume", t - 1, VOL_SMA20_WINDOW)
  IN /\ t >= SMA50_WINDOW
     /\ t - 1 >= SMA20_WINDOW
     /\ Complete(s, "Close", t, SMA50_WINDOW)
     /\ Complete(s, "Close", t - 1, SMA20_WINDOW)
     /\ self.use_volume => Complete(s, "Volume", t - 1, VOL_SMA20_WINDOW)
     /\ SMA50_WINDOW * s[t].Close[1] > s50
     /\ SMA50_WINDOW * s20 > SMA20_WINDOW * s50
     /\ RatioLe(AbsInt(SMA20_WINDOW * s[t - 1].Close[1] - p20), p20, self.pullback_pct)
     /\ SMA20_WINDOW * s[t - 1].Close[1] <= p20
     /\ SMA20_WINDOW * s[t].Close[1] > s20
     /\ self.use_volume => VOL_SMA20_WINDOW * s[t - 1].Volume[1] < pv20

\* closes to put in place of the close of a flagged bar
FlipOffsets == {-40, -20, -1, 0, 1}

\* C10: at every bar t that has a previous bar, signal(t) is True exactly when
\* close(t) > SMA50(t), SMA20(t) > SMA50(t), close(t-1) is within
\* pullback_pct of SMA20(t-1) and at or below it, close(t) > SMA20(t) and,
\* with use_volume, volume(t-1) < VOL_SMA20(t-1); and replacing the close of
\* a flagged bar by one not above the resulting SMA20(t) clears the flag.
C10_SignalIsRule ==
  dpc = "applied" =>
    \A t \in 2..Len(bars) :
      /\ frame[t].signal <=> RuleAt(bars, setup, t)
      /\ frame[t].signal =>
           \A d \in FlipOffsets :
             LET flipped == [bars EXCEPT ![t].Close = R(bars[t].Close[1] + d)]
                 s20 == WindowSum(flipped, "Close", t, SMA20_WINDOW)
             IN SMA20_WINDOW * flipped[t].Close[1] <= s20
                  => ~apply(setup, prepare(flipped))[t].signal

C10_Witness ==
  /\ dpc = "applied"
  /\ setup.use_volume
  /\ Len(bars) >= MIN_BARS
  /\ frame[Len(bars)].signal
  /\ \E d \in FlipOffsets :
       LET flipped == [bars EXCEPT ![Len(bars)].Close = R(bars[Len(bars)].Close[1] + d)]
       IN SMA20_WINDOW * flipped[Len(bars)].Close[1]
            <= WindowSum(flipped, "Close", Len(bars), SMA20_WINDOW)

\* x is the mean of column col of s over the w bars that end at bar t
MeanIs(x, s, col, t, w) ==
  x # NaN /\ x[2] > 0 /\ x[1] * w = WindowSum(s, col, t, w) * x[2]

\* column ind of df is the w-bar moving average of column col of s: the
\* window's mean where the window is whole, undefined elsewhere
MovingAverage(df, ind, s, col, w) ==
  \A t \in 1..Len(s) :
    IF t >= w /\ Complete(s, col, t, w)
      THEN MeanIs(df[t][ind], s, col, t, w)
      ELSE df[t][ind] = NaN

\* C12: prepare answers for every series (no error, one row per bar), and
\* SMA20, SMA50 and VOL_SMA20 at 0-based index i are defined exactly when
\* i >= W-1 (all W bars of the window exist), and are then the unweighted
\* mean of the W closes (volumes) at i-W+1..i; on a series shorter than W the
\* average is undefined at every index.
C12_MovingAverageFullWindowOnly ==
  dpc \in {"prepared", "applied"} =>
    /\ Len(frame) = Len(bars)
    /\ MovingAverage(frame, "SMA20", bars, "Close", SMA20_WINDOW)
    /\ MovingAverage(frame, "SMA50", bars, "Close", SMA50_WINDOW)
    /\ MovingAverage(frame, "VOL_SMA20", bars, "Volume", VOL_SMA20_WINDOW)

\* a series without gaps, long enough for the 20-bar windows and too short
\* for the 50-bar one, whose last closes differ
C12_Witness ==
  /\ dpc = "prepared"
  /\ Len(bars) = SMA20_WINDOW + 1
  /\ \A t \in 1..Len(bars) : bars[t].Close # NaN /\ bars[t].Volume # NaN
  /\ bars[Len(bars)].Close # bars[Len(bars) - 1].Close
  /\ frame[SMA20_WINDOW - 1].SMA20 = NaN
  /\ frame[SMA20_WINDOW].SMA20 # NaN
  /\ frame[SMA20_WINDOW].VOL_SMA20 # NaN
  /\ \A t \in 1..Len(bars) : frame[t].SMA50 = NaN

\* an indicator the rule reads at bar t of the prepared frame df is undefined
UndefinedAt(df, self, t) ==
  \/ t = 1
  \/ df[t].SMA20 = NaN
  \/ df[t].SMA50 = NaN
  \/ df[t - 1].SMA20 = NaN
  \/ self.use_volume /\ df[t - 1].VOL_SMA20 = NaN

\* C11: apply answers for every bar (one boolean per bar, no error), and the
\* signal is False at each bar where SMA20(t), SMA50(t), SMA20(t-1) or, with
\* use_volume, VOL_SMA20(t-1) is undefined, the first bar included.
C11_UndefinedIndicatorNoSignal ==
  dpc = "applied" =>
    /\ Len(frame) = Len(bars)
    /\ \A t \in 1..Len(frame) :
         /\ frame[t].signal \in BOOLEAN
         /\ UndefinedAt(frame, setup, t) => frame[t].signal = FALSE

\* the volume average of the pullback day is the one undefined indicator of
\* a bar that the rule without the volume test flags
C11_Witness ==
  /\ dpc = "applied"
  /\ setup.use_volume
  /\ \E t \in 2..Len(frame) :
       /\ frame[t - 1].VOL_SMA20 = NaN
       /\ frame[t].SMA20 # NaN /\ frame[t].SMA50 # NaN /\ frame[t - 1].SMA20 # NaN
       /\ signal(PullbackUptrendSetup(setup.pullback_pct, FALSE), frame)[t]
       /\ ~frame[t].signal

\* C17: a setup built with an invalid threshold (a negative pullback
\* fraction) is rejected at construction, so neither prepare nor apply ever
\* runs for a detector whose pullback fraction is negative.
C17_InvalidThresholdsRejected ==
  dpc \in {"prepared", "applied"} => setup.pullback_pct[1] >= 0

\* setup wider flags with the volume test dropped at the same pullback
\* fraction, or at a pullback fraction at least as large with the same
\* use_volume
Relaxes(self, wider) ==
  \/ /\ self.use_volume
     /\ ~wider.use_volume
     /\ wider.pullback_pct = self.pullback_pct
  \/ /\ wider.use_volume = self.use_volume
     /\ FGe(wider.pullback_pct, self.pullback_pct)

\* C23: on the same indicator series, each bar flagged with use_volume=True
\* is flagged with use_volume=False at the same pullback fraction, and each
\* bar flagged at pullback fraction p is flagged at every p' >= p with the
\* same use_volume.
C23_MonotoneInParameters ==
  dpc = "applied" =>
    \A wider \in Setups :
      Relaxes(setup, wider) =>
        LET other == apply(wider, prepare(bars))
        IN \A t \in 1..Len(bars) : frame[t].signal => other[t].signal

\* a bar flagged at fraction 0 with the volume test, which a smaller
\* fraction does not flag, and which the two wider setups flag as well
C23_Witness ==
  /\ dpc = "applied"
  /\ setup = PullbackUptrendSetup(<<0, 100>>, TRUE)
  /\ \E t \in 1..Len(bars) :
       /\ frame[t].signal
       /\ ~apply(PullbackUptrendSetup(<<-1, 100>>, TRUE), prepare(bars))[t].signal
       /\ apply(PullbackUptrendSetup(<<2, 100>>, TRUE), prepare(bars))[t].signal
       /\ apply(PullbackUptrendSetup(<<0, 100>>, FALSE), prepare(bars))[t].signal

\* ------------------------------------------------------------------------
\* Claims on the scanner
\* ------------------------------------------------------------------------
Scanned == tickers_to_scan(tickers, max_tickers)

MarketChecked == mkt # NotCalled

Blocked == require_market_ok /\ MarketChecked /\ ~mkt.ok

\* the frame of complete bars the provider answered with, on its own terms
CompleteBars(raw) ==
  IF raw.kind = "frame" /\ EXPECTED \subseteq raw.columns
    THEN Cardinality({n \in 1..Len(raw.rows) : raw.rows[n].Close # NaN})
    ELSE 0

BenchBars == _download(BenchFrames[bench])

\* C3: a ticker whose provider call raises is dropped, the loop goes on to
\* the tickers after it and scan returns normally.
C3_TickerFailureCaught ==
  \A n \in 1..Len(provided) :
    TickerFrames[provided[n]].kind = "raise" => spc # "raised" /\ idx >= n

\* C4: once a mandatory market filter has answered ok = False, scan has
\* returned an empty frame, the benchmark is the only symbol ever downloaded
\* and no ticker went through prepare or apply.
C4_BlockedScanTouchesNoTicker ==
  Blocked =>
    /\ spc = "returned"
    /\ out = EmptyFrame
    /\ calls = <<"SPY">>
    /\ provided = <<>>
    /\ detected = <<>>

C4_Witness ==
  /\ Blocked
  /\ Len(tickers) > 0
  /\ spc = "returned"

\* C5: with a mandatory filter and a benchmark that comes back empty, scan is
\* not stopped: it goes on to the tickers as after a passing filter.
C5_EmptyBenchmarkScansOn ==
  (require_market_ok /\ MarketChecked /\ BenchBars = EmptyFrame)
    => spc \in {"loop", "returned"}

\* C21: with a mandatory filter and a benchmark download that raises, scan
\* returns an empty result set and nothing is raised to its caller.
C21_BenchmarkFailureReturnsEmpty ==
  (require_market_ok /\ bench # 0 /\ BenchFrames[bench].kind = "raise")
    => /\ spc = "returned"
       /\ out = EmptyFrame
       /\ exc = ""

\* C6: market_ok on an empty benchmark answers ok = True with the date, the
\* close and the SMA200 all None.
C6_EmptyBenchmarkFailsOpen ==
  (MarketChecked /\ BenchBars = EmptyFrame)
    => /\ mkt.ok = TRUE
       /\ mkt.last_date = None
       /\ mkt.spy_close = None
       /\ mkt.spy_sma200 = None

C6_Witness ==
  /\ MarketChecked
  /\ BenchFrames[bench].rows # <<>>
  /\ BenchBars = EmptyFrame

\* C7: on a benchmark with at least one bar, market_ok answers ok = True
\* exactly when the series has 200 bars or more and its last close is
\* strictly above the mean of its last 200 closes.
C7_MarketOkIffAboveSMA200 ==
  (MarketChecked /\ BenchBars # EmptyFrame) =>
    LET n == Len(BenchBars)
    IN mkt.ok <=>
         /\ n >= SMA200_WINDOW
         /\ SMA200_WINDOW * BenchBars[n].Close[1]
              > WindowSum(BenchBars, "Close", n, SMA200_WINDOW)

C7_Witness ==
  /\ MarketChecked
  /\ BenchBars # EmptyFrame
  /\ Len(BenchBars) = SMA200_WINDOW
  /\ ~mkt.ok
  /\ SMA200_WINDOW * BenchBars[SMA200_WINDOW].Close[1]
       = WindowSum(BenchBars, "Close", SMA200_WINDOW, SMA200_WINDOW)

RECURSIVE IndexOf(_, _, _)
IndexOf(seq, x, n) ==
  IF n = 0 THEN 0 ELSE IF seq[n] = x THEN n ELSE IndexOf(seq, x, n - 1)

SortKey(r) == <<IF r.has_signal_today THEN 1 ELSE 0, r.signals_in_lookback>>

\* C8: in the frame scan returns, a row never stands before a row with a
\* larger (has_signal_today, signals_in_lookback), and rows equal on both
\* stand in the order of their tickers in the input list.
C8_OutputSortedStable ==
  spc = "returned" =>
    \A a, b \in 1..Len(out) :
      a < b =>
        LET ka == SortKey(out[a])
            kb == SortKey(out[b])
        IN /\ ka[1] > kb[1] \/ (ka[1] = kb[1] /\ ka[2] >= kb[2])
           /\ ka = kb => IndexOf(tickers, out[a].ticker, Len(tickers))
                           < IndexOf(tickers, out[b].ticker, Len(tickers))

C8_Witness ==
  /\ spc = "returned"
  /\ Len(out) >= 2
  /\ out # rows

\* C9: when the gate lets the scan run, the frame scan returns holds one row
\* for each scanned ticker whose provider answered a frame with the expected
\* columns and at least 60 complete bars, no row for any other ticker, and
\* every scanned ticker was asked for, whatever was skipped before it.
C9_OneRowPerUsableTicker ==
  (spc = "returned" /\ ~Blocked) =>
    /\ Len(provided) = Len(Scanned)
    /\ \A n \in 1..Len(Scanned) :
         Cardinality({a \in 1..Len(out) : out[a].ticker = Scanned[n]})
           = IF CompleteBars(TickerFrames[provided[n]]) >= MIN_BARS THEN 1 ELSE 0
    /\ \A a \in 1..Len(out) : \E n \in 1..Len(Scanned) : out[a].ticker = Scanned[n]

C9_Witness ==
  /\ spc = "returned"
  /\ ~Blocked
  /\ Len(provided) >= 2
  /\ TickerFrames[provided[1]].kind = "frame"
  /\ CompleteBars(TickerFrames[provided[1]]) = MIN_BARS - 1
  /\ CompleteBars(TickerFrames[provided[2]]) = MIN_BARS
  /\ Len(out) = 1

\* the bars the scanner processed for ticker t: the provider's answer for the
\* call made for t, without the bars that have no close
ProcessedBars(t) ==
  LET n == CHOOSE n \in 1..Len(provided) : Scanned[n] = t
  IN _download(TickerFrames[provided[n]])

\* the bars of series s at which the rule of the setup holds
SignalBars(s) == {t \in 1..Len(s) : RuleAt(s, setup, t)}

RecordOf(r) ==
  LET s == ProcessedBars(r.ticker)
      sig == SignalBars(s)
  IN /\ r.has_signal_today <=> Len(s) \in sig
     /\ r.last_date = isoformat(s[Len(s)].Date)
     /\ r.signals_in_lookback = Cardinality(sig)
     /\ r.most_recent_signal_date =
          IF sig = {} THEN None
          ELSE isoformat(s[CHOOSE t \in sig : \A u \in sig : u <= t].Date)

\* C20: the record of each processed ticker, when the loop has appended it
\* and in the frame scan returns, has has_signal_today equal to the
\* detector's output at the last bar, most_recent_signal_date the date of the last bar that signals (None
\* when no bar does), signals_in_lookback the number of bars that signal and
\* last_date the date of the last bar.
C20_RecordSummarisesSignals ==
  /\ (spc = "loop" /\ rows # <<>>) => RecordOf(rows[Len(rows)])
  /\ (spc = "returned" /\ ~Blocked) => \A a \in 1..Len(out) : RecordOf(out[a])

C20_Witness ==
  /\ spc = "returned"
  /\ \E a, b \in 1..Len(out) :
       /\ out[a].signals_in_lookback >= 2
       /\ ~out[a].has_signal_today
       /\ out[a].most_recent_signal_date \notin {None, out[a].last_date}
       /\ out[b].signals_in_lookback = 0
       /\ out[b].most_recent_signal_date = None

\* the ISO date a is not later than the ISO date b
NotLater(a, b) == a[2] <= b[2]

Consistent(r) ==
  /\ r.has_signal_today =>
       /\ r.most_recent_signal_date = r.last_date
       /\ r.signals_in_lookback >= 1
  /\ r.signals_in_lookback = 0 <=> r.most_recent_signal_date = None
  /\ r.most_recent_signal_date # None =>
       NotLater(r.most_recent_signal_date, r.last_date)

\* C22: in every record of scan, has_signal_today implies that
\* most_recent_signal_date is last_date and signals_in_lookback >= 1;
\* signals_in_lookback is 0 exactly when most_recent_signal_date is None; and
\* most_recent_signal_date, when there is one, is not later than last_date.
C22_RecordConsistent ==
  /\ \A a \in 1..Len(rows) : Consistent(rows[a])
  /\ \A a \in 1..Len(out) : Consistent(out[a])

C22_Witness ==
  /\ spc = "returned"
  /\ \E a, b \in 1..Len(out) :
       /\ out[a].has_signal_today
       /\ out[a].signals_in_lookback = 1
       /\ ~out[b].has_signal_today
       /\ out[b].signals_in_lookback >= 1
       /\ out[b].most_recent_signal_date[2] < out[b].last_date[2]

\* ------------------------------------------------------------------------
\* Claims on the ranking
\* ------------------------------------------------------------------------
\* the positions in the scan's frame of the records flagged today: the input
\* of the ranker, in input order
TodaysSignals == {i \in 1..Len(results.rows) : results.rows[i].has_signal_today}

\* the position of ticker t in the scan's frame
InputPos(t) == CHOOSE i \in 1..Len(results.rows) : results.rows[i].ticker = t

RankDone == rpc = "done" /\ scores # <<>>

\* C13: for N input records rank_signals returns N records, one per input
\* ticker, whose rank is their position 1..N in the output, and no record
\* has a larger relative strength than a record before it.
C13_RanksDenseByStrength ==
  RankDone =>
    /\ Len(today_df) = Cardinality(TodaysSignals)
    /\ \A i \in TodaysSignals :
         Cardinality({n \in 1..Len(today_df) :
                        today_df[n].ticker = results.rows[i].ticker}) = 1
    /\ \A n \in 1..Len(today_df) : today_df[n].rank = n
    /\ \A n, m \in 1..Len(today_df) :
         n < m => ~FLt(today_df[n].relative_strength, today_df[m].relative_strength)

\* the later input record is the stronger one and gets rank 1
C13_Witness ==
  /\ RankDone
  /\ Len(today_df) >= 2
  /\ FGt(today_df[1].relative_strength, today_df[2].relative_strength)
  /\ InputPos(today_df[1].ticker) > InputPos(today_df[2].ticker)
  /\ today_df[1].rank = 1 /\ today_df[2].rank = 2

Insufficient(answer) ==
  \/ answer.stock.kind = "raise"
  \/ Len(answer.stock.rows) < LOOKBACK_DAYS
  \/ answer.spy.kind = "raise"
  \/ Len(answer.spy.rows) < LOOKBACK_DAYS

\* C15: calculate_relative_strength answers 0.0, and raises nothing, when a
\* download for the ticker or the benchmark raises, is empty or has fewer
\* bars than the lookback; the other records are scored and ranked all the
\* same.
C15_FailureScoresZero ==
  /\ rpc = "raised" => ~results.columns
  /\ LET answers == RsAnswers
     IN \A n \in 1..Len(scores) :
          Insufficient(answers[rs_provided[n]]) => scores[n] = R(0)
  /\ RankDone =>
       /\ Len(scores) = Cardinality(TodaysSignals)
       /\ \A n \in 1..Len(today_df) : today_df[n].rank = n
       /\ \A n \in 1..Len(scores) :
            \E m \in 1..Len(today_df) : today_df[m].relative_strength = scores[n]

\* the first record's benchmark came back a bar short of the lookback and
\* the record scores 0.0; the second record has a score other than zero
C15_Witness ==
  /\ RankDone
  /\ Len(scores) >= 2
  /\ Insufficient(RsAnswers[rs_provided[1]])
  /\ Len(RsAnswers[rs_provided[1]].stock.rows) > LOOKBACK_DAYS
  /\ Len(RsAnswers[rs_provided[1]].spy.rows) = LOOKBACK_DAYS - 1
  /\ scores[1] = R(0)
  /\ scores[2] # NaN /\ scores[2] # R(0)
  /\ Len(today_df) = Len(scores)

\* C16: only records flagged today are scored and ranked: every record of
\* the ranked frame has has_signal_today = True, every download of the
\* ranker is for a flagged ticker or the benchmark, and without a flagged
\* record the output is empty and the provider is never called.
C16_OnlyTodaysSignalsRanked ==
  /\ \A n \in 1..Len(today_df) : today_df[n].has_signal_today
  /\ \A c \in 1..Len(rs_calls) :
       \/ rs_calls[c] = "SPY"
       \/ \E i \in TodaysSignals : results.rows[i].ticker = rs_calls[c]
  /\ TodaysSignals = {} => today_df = <<>> /\ rs_calls = <<>> /\ scores = <<>>

C16_Witness ==
  /\ RankDone
  /\ TodaysSignals # {}
  /\ \E i \in 1..Len(results.rows) : ~results.rows[i].has_signal_today
  /\ Len(today_df) < Len(results.rows)
  /\ rs_calls # <<>>

\* close[last] / close[last - k] - 1
ReturnOver(s, k) ==
  FSub(FDiv(s[Len(s)].Close, s[Len(s) - k].Close), R(1))

\* C19: with more than 60 bars for the ticker and for the benchmark, the
\* score is (ticker return - benchmark return) * 100, each return being
\* close[last] / close[last - 60] - 1: the close 60 bars before the last.
C19_ReturnOverSixtyBars ==
  \A n \in 1..Len(scores) :
    LET answer == RsAnswers[rs_provided[n]]
        stock == answer.stock.rows
        spy == answer.spy.rows
    IN (Len(stock) > LOOKBACK_DAYS /\ Len(spy) > LOOKBACK_DAYS)
         => scores[n] = float(FMul(FSub(ReturnOver(stock, LOOKBACK_DAYS),
                                        ReturnOver(spy, LOOKBACK_DAYS)), R(100)))

\* ------------------------------------------------------------------------
\* Claims on the exit evaluation
\* ------------------------------------------------------------------------
\* the class the alert loop put a ticker in: one of its two alerts, or the
\* list of positions it reports as healthy
ExitClasses(t) ==
  {alerts[n].kind : n \in {m \in 1..Len(alerts) :
       alerts[m].ticker = t /\ alerts[m].kind \in {"STOP_HIT", "TARGET_HIT"}}}
    \cup {"HEALTHY" : n \in {m \in 1..Len(status_data) : status_data[m].ticker = t}}

Classified(t) ==
  Cardinality({m \in 1..Len(alerts) :
       alerts[m].ticker = t /\ alerts[m].kind \in {"STOP_HIT", "TARGET_HIT"}})
    + Cardinality({m \in 1..Len(status_data) : status_data[m].ticker = t})

\* close <= entry * (1 - stop_loss_pct) and close >= entry * (1 +
\* profit_target_pct) on whole prices, for thresholds num/den
AtOrBelowStop(e) ==
  e.latest_close[1] * exit_rules.stop_loss_pct[2]
    <= e.buy_price[1] * (exit_rules.stop_loss_pct[2] - exit_rules.stop_loss_pct[1])

AtOrAboveTarget(e) ==
  e.latest_close[1] * exit_rules.profit_target_pct[2]
    >= e.buy_price[1] * (exit_rules.profit_target_pct[2] + exit_rules.profit_target_pct[1])

\* C1: a position with a known entry date whose close is strictly between
\* stop and target is TIME_STOP when days_held >= max_hold_days and is
\* HEALTHY only when days_held < max_hold_days.
C1_TimeStopAfterMaxHold ==
  \A n \in 1..Len(evals) :
    LET e == evals[n]
    IN (e.days_held # None /\ ~AtOrBelowStop(e) /\ ~AtOrAboveTarget(e)) =>
         /\ e.days_held[1] >= exit_rules.max_hold_days
              => ExitClasses(e.ticker) = {"TIME_STOP"}
         /\ "HEALTHY" \in ExitClasses(e.ticker)
              => e.days_held[1] < exit_rules.max_hold_days

\* C2: every position evaluated gets one class: STOP_HIT when the close is
\* at or below entry * (1 - stop_loss_pct), whatever the target test would
\* say; else TARGET_HIT when it is at or above entry * (1 +
\* profit_target_pct); else neither of the two.
C2_OneClassStopFirst ==
  \A n \in 1..Len(evals) :
    LET e == evals[n]
    IN /\ Classified(e.ticker) = 1
       /\ AtOrBelowStop(e) => ExitClasses(e.ticker) = {"STOP_HIT"}
       /\ (~AtOrBelowStop(e) /\ AtOrAboveTarget(e))
            => ExitClasses(e.ticker) = {"TARGET_HIT"}
       /\ (~AtOrBelowStop(e) /\ ~AtOrAboveTarget(e))
            => ExitClasses(e.ticker) = {"HEALTHY"}

\* C18 (exit evaluation): a second evaluation of the same positions with the
\* same bars, the same latest closes and the same thresholds puts out what
\* the first one did, whatever the clock reads at the time of the call.
C18_SameInputsSameOutputs ==
  (run = 2 /\ apc \in {"sent", "raised"}) =>
    /\ alerts = first.alerts
    /\ status_data = first.status_data

C2_Witness ==
  \E n, m \in 1..Len(evals) :
    /\ evals[n].latest_close[1] * 100 = evals[n].buy_price[1] * 98
    /\ ExitClasses(evals[n].ticker) = {"STOP_HIT"}
    /\ evals[m].latest_close[1] * 100 = evals[m].buy_price[1] * 107
    /\ ExitClasses(evals[m].ticker) = {"TARGET_HIT"}

====
